---- MODULE Spec2Model ----
(***************************************************************************)
(* Model of the MCP23S08 register-level driver: the blocking face          *)
(* (src/src/mcp23s08.rs) and the suspending face                           *)
(* (src/src/mcp23s08async.rs).  The device handle is a record with the     *)
(* fields of struct Mcp23s08; every driver function is an operator on that *)
(* record that returns the updated handle and the function's Result.  The  *)
(* SPI transport is the environment: it keeps a log of the transactions it *)
(* was handed and answers each from a script of outcomes chosen by the     *)
(* caller of the action (success with a received byte, or a transport      *)
(* error).  Spec is the blocking face, SpecPair two remembered calls of    *)
(* write_pin, SpecAsync the suspending face with its suspension point.     *)
(***************************************************************************)
EXTENDS Integers, Sequences, FiniteSets, TLC

VARIABLES phase, dev, bus, call, pending, nops, given_addr, last_ok_out,
          last_ok_dir, given_spi, earlier, fut

vars == <<phase, dev, bus, call, pending, nops, given_addr, last_ok_out,
          last_ok_dir, given_spi, earlier, fut>>

----------------------------------------------------------------------------
(* Bounds of the exploration *)

\* number of driver calls made on one handle after construction
MaxOps == 2
\* number of sample bytes the transport may return / the caller may pass
NumBytes == 2
\* number of distinct transport error values
NumSpiErrors == 2
\* hardware addresses 0..MaxAddr are passed to new (0..3 valid, above invalid)
MaxAddr == 5
\* number of distinct transports a caller may hand to new
NumSpi == 2

ByteSample == <<255, 0, 165, 90, 2, 128, 1, 254>>
Byte == {ByteSample[i] : i \in 1..NumBytes}
SpiError == 1..NumSpiErrors
Addr == (0..MaxAddr) \cup {255}

----------------------------------------------------------------------------
(* u8 arithmetic *)

RECURSIVE BitAndW(_, _, _)
BitAndW(a, b, w) ==
    IF w = 0 THEN 0
    ELSE ((a % 2) * (b % 2)) + 2 * BitAndW(a \div 2, b \div 2, w - 1)

RECURSIVE BitOrW(_, _, _)
BitOrW(a, b, w) ==
    IF w = 0 THEN 0
    ELSE (IF (a % 2) + (b % 2) > 0 THEN 1 ELSE 0)
         + 2 * BitOrW(a \div 2, b \div 2, w - 1)

And8(a, b) == BitAndW(a, b, 8)
Or8(a, b)  == BitOrW(a, b, 8)
Not8(a)    == 255 - a
Shl8(a, n) == (a * (2 ^ n)) % 256

----------------------------------------------------------------------------
(* Types of the driver *)

\* enum Pin: P0..P7, by discriminant
Pin == 0..7

\* Pin::bit
bit(pin) == Shl8(1, pin)

\* enum Reg
Reg == [IODIR |-> 0, IPOL |-> 1, GPINTEN |-> 2, DEFVAL |-> 3, INTCON |-> 4,
        IOCON |-> 5, GPPU |-> 6, INTF |-> 7, INTCAP |-> 8, GPIO |-> 9,
        OLAT |-> 10]

\* enum Polarity, enum InterruptMode
Polarity == {"Normal", "Inverted"}
InterruptMode == {"OnChange", "CompareToDefault"}

\* Result<T, Error<E>>: Ok(v), Err(Error::Spi(e)), Err(Error::BadAddress)
Ok(v)      == [ok |-> TRUE,  val |-> v,      err |-> "None", e |-> 0]
ErrSpi(x)  == [ok |-> FALSE, val |-> "none", err |-> "Spi",  e |-> x]
BadAddress == [ok |-> FALSE, val |-> "none", err |-> "BadAddress", e |-> 0]
Unit == "unit"

----------------------------------------------------------------------------
(* The transport (SpiDevice): environment *)

\* Operation::Write(&buf) / Operation::Read(&mut buf)
OpWrite(data) == [kind |-> "Write", data |-> data, len |-> Len(data)]
OpRead(n)     == [kind |-> "Read",  data |-> <<>>, len |-> n]

\* outcomes the transport can give one transaction
OutcomeW == [ok : {TRUE}, rx : {0}, e : {0}]
              \cup [ok : {FALSE}, rx : {0}, e : SpiError]
OutcomeR == [ok : {TRUE}, rx : Byte, e : {0}]
              \cup [ok : {FALSE}, rx : {0}, e : SpiError]

\* identities of the transports that exist; 0 is no transport
SpiId == 1..NumSpi

IdleSpi == [log |-> <<>>, script |-> <<>>, id |-> 0]
SpiWith(id, script) == [log |-> <<>>, script |-> script, id |-> id]

\* SpiDevice::transaction: one chip-select assertion carrying ops; the
\* transport consumes the next scripted outcome and records what it was given
transaction(spi, ops) ==
    LET o == Head(spi.script)
    IN [spi |-> [log    |-> Append(spi.log, [ops |-> ops, ok |-> o.ok,
                                             rx |-> o.rx, e |-> o.e]),
                 script |-> Tail(spi.script),
                 id     |-> spi.id],
        ok  |-> o.ok,
        rx  |-> o.rx,
        e   |-> o.e]

----------------------------------------------------------------------------
(* Register protocol codec *)

opcode_write(self) == Or8(Or8(64, Shl8(And8(self.hw_addr, 3), 1)), 0)

\* variant: the read/write bit is left out of the read opcode
opcode_read_no_rw_bit(self) == Or8(64, Shl8(And8(self.hw_addr, 3), 1))

opcode_read(self) == Or8(Or8(64, Shl8(And8(self.hw_addr, 3), 1)), 1)

\* variant: the transaction's outcome is discarded and Ok(()) returned
write_reg_swallow(self, reg, val) ==
    LET opcode == opcode_write(self)
        frame  == <<opcode, reg, val>>
        t      == transaction(self.spi, <<OpWrite(frame)>>)
    IN [self |-> [self EXCEPT !.spi = t.spi], ret |-> Ok(Unit)]

write_reg(self, reg, val) ==
    LET opcode == opcode_write(self)
        frame  == <<opcode, reg, val>>
        t      == transaction(self.spi, <<OpWrite(frame)>>)
    IN [self |-> [self EXCEPT !.spi = t.spi],
        ret  |-> IF t.ok THEN Ok(Unit) ELSE ErrSpi(t.e)]

\* variant: the buffer is returned as it was initialised ([0u8; 1])
read_reg_stale_buffer(self, reg) ==
    LET opcode == opcode_read(self)
        cmd    == <<opcode, reg>>
        t      == transaction(self.spi, <<OpWrite(cmd), OpRead(1)>>)
    IN [self |-> [self EXCEPT !.spi = t.spi],
        ret  |-> IF t.ok THEN Ok(0) ELSE ErrSpi(t.e)]

read_reg(self, reg) ==
    LET opcode == opcode_read(self)
        cmd    == <<opcode, reg>>
        t      == transaction(self.spi, <<OpWrite(cmd), OpRead(1)>>)
    IN [self |-> [self EXCEPT !.spi = t.spi],
        ret  |-> IF t.ok THEN Ok(t.rx) ELSE ErrSpi(t.e)]

----------------------------------------------------------------------------
(* Device handle: construction *)

\* Mcp23s08::new; on Err the handle is dropped (self is NoHandle) and only
\* the transport's log remains observable
NoHandle == [spi |-> IdleSpi, hw_addr |-> 0, olat |-> 0, iodir |-> 0]

\* variant: the address check is off by one (hw_addr > 4)
new_check_off_by_one(spi, hw_addr) ==
    IF hw_addr > 4
    THEN [self |-> NoHandle, spi |-> spi, ret |-> BadAddress]
    ELSE
      LET this == [spi |-> spi, hw_addr |-> hw_addr, olat |-> 0, iodir |-> 255]
          w    == write_reg(this, Reg.IOCON, 0)
      IN IF ~w.ret.ok
         THEN [self |-> NoHandle, spi |-> w.self.spi, ret |-> w.ret]
         ELSE
           LET r1    == read_reg(w.self, Reg.IODIR)
               this1 == [r1.self EXCEPT !.iodir = r1.ret.val]
           IN IF ~r1.ret.ok
              THEN [self |-> NoHandle, spi |-> r1.self.spi, ret |-> r1.ret]
              ELSE
                LET r2    == read_reg(this1, Reg.OLAT)
                    this2 == [r2.self EXCEPT !.olat = r2.ret.val]
                IN IF ~r2.ret.ok
                   THEN [self |-> NoHandle, spi |-> r2.self.spi, ret |-> r2.ret]
                   ELSE [self |-> this2, spi |-> this2.spi, ret |-> Ok(Unit)]

new(spi, hw_addr) ==
    IF hw_addr > 3
    THEN [self |-> NoHandle, spi |-> spi, ret |-> BadAddress]
    ELSE
      LET this == [spi |-> spi, hw_addr |-> hw_addr, olat |-> 0, iodir |-> 255]
          w    == write_reg(this, Reg.IOCON, 0)
      IN IF ~w.ret.ok
         THEN [self |-> NoHandle, spi |-> w.self.spi, ret |-> w.ret]
         ELSE
           LET r1    == read_reg(w.self, Reg.IODIR)
               this1 == [r1.self EXCEPT !.iodir = r1.ret.val]
           IN IF ~r1.ret.ok
              THEN [self |-> NoHandle, spi |-> r1.self.spi, ret |-> r1.ret]
              ELSE
                LET r2    == read_reg(this1, Reg.OLAT)
                    this2 == [r2.self EXCEPT !.olat = r2.ret.val]
                IN IF ~r2.ret.ok
                   THEN [self |-> NoHandle, spi |-> r2.self.spi, ret |-> r2.ret]
                   ELSE [self |-> this2, spi |-> this2.spi, ret |-> Ok(Unit)]

----------------------------------------------------------------------------
(* Device handle: operations *)

\* variant: the two branches are exchanged (input clears the bit)
set_pin_direction_inverted(self, pin, input) ==
    LET s == IF input
             THEN [self EXCEPT !.iodir = And8(self.iodir, Not8(bit(pin)))]
             ELSE [self EXCEPT !.iodir = Or8(self.iodir, bit(pin))]
    IN write_reg(s, Reg.IODIR, s.iodir)

set_pin_direction(self, pin, input) ==
    LET s == IF input
             THEN [self EXCEPT !.iodir = Or8(self.iodir, bit(pin))]
             ELSE [self EXCEPT !.iodir = And8(self.iodir, Not8(bit(pin)))]
    IN write_reg(s, Reg.IODIR, s.iodir)

\* variant: the shadow is not updated
set_port_direction_no_shadow(self, mask) == write_reg(self, Reg.IODIR, mask)

set_port_direction(self, mask) ==
    LET s == [self EXCEPT !.iodir = mask]
    IN write_reg(s, Reg.IODIR, mask)

\* variant: a failed read is taken as 0 and the write goes ahead
set_pin_pullup_ignore_read_error(self, pin, enable) ==
    LET r == read_reg(self, Reg.GPPU)
        v == IF r.ret.ok THEN r.ret.val ELSE 0
        gppu == IF enable THEN Or8(v, bit(pin)) ELSE And8(v, Not8(bit(pin)))
    IN write_reg(r.self, Reg.GPPU, gppu)

set_pin_pullup(self, pin, enable) ==
    LET r == read_reg(self, Reg.GPPU)
    IN IF ~r.ret.ok
       THEN [self |-> r.self, ret |-> r.ret]
       ELSE LET gppu == IF enable
                        THEN Or8(r.ret.val, bit(pin))
                        ELSE And8(r.ret.val, Not8(bit(pin)))
            IN write_reg(r.self, Reg.GPPU, gppu)

set_port_pullups(self, mask) == write_reg(self, Reg.GPPU, mask)

set_pin_polarity(self, pin, pol) ==
    LET r == read_reg(self, Reg.IPOL)
    IN IF ~r.ret.ok
       THEN [self |-> r.self, ret |-> r.ret]
       ELSE LET ipol == CASE pol = "Normal"   -> And8(r.ret.val, Not8(bit(pin)))
                          [] pol = "Inverted" -> Or8(r.ret.val, bit(pin))
            IN write_reg(r.self, Reg.IPOL, ipol)

\* variant: the byte read from GPIO also refreshes the output shadow
read_port_refreshing_olat(self) ==
    LET r == read_reg(self, Reg.GPIO)
    IN IF r.ret.ok THEN [self |-> [r.self EXCEPT !.olat = r.ret.val], ret |-> r.ret]
       ELSE r

read_port(self) == read_reg(self, Reg.GPIO)

read_pin(self, pin) ==
    LET r == read_port(self)
    IN IF ~r.ret.ok
       THEN [self |-> r.self, ret |-> r.ret]
       ELSE [self |-> r.self, ret |-> Ok(And8(r.ret.val, bit(pin)) # 0)]

write_port(self, value) ==
    LET s == [self EXCEPT !.olat = value]
    IN write_reg(s, Reg.GPIO, value)

\* variant: the shadow is replaced by the pin's mask or by 0
write_pin_whole_byte(self, pin, high) ==
    LET s == IF high
             THEN [self EXCEPT !.olat = bit(pin)]
             ELSE [self EXCEPT !.olat = 0]
    IN write_reg(s, Reg.GPIO, s.olat)

\* variant: writing low leaves the bit as it is
write_pin_never_clears(self, pin, high) ==
    LET s == IF high
             THEN [self EXCEPT !.olat = Or8(self.olat, bit(pin))]
             ELSE self
    IN write_reg(s, Reg.GPIO, s.olat)

write_pin(self, pin, high) ==
    LET s == IF high
             THEN [self EXCEPT !.olat = Or8(self.olat, bit(pin))]
             ELSE [self EXCEPT !.olat = And8(self.olat, Not8(bit(pin)))]
    IN write_reg(s, Reg.GPIO, s.olat)

\* variant: the output shadow is not updated
write_olat_no_shadow(self, value) == write_reg(self, Reg.OLAT, value)

write_olat(self, value) ==
    LET s == [self EXCEPT !.olat = value]
    IN write_reg(s, Reg.OLAT, value)

\* variant: a failed read is issued once more before the error is returned
set_pin_interrupt_enable_retry(self, pin, enable) ==
    LET r == read_reg(self, Reg.GPINTEN)
    IN IF ~r.ret.ok
       THEN [self |-> read_reg(r.self, Reg.GPINTEN).self, ret |-> r.ret]
       ELSE LET gpinten == IF enable
                           THEN Or8(r.ret.val, bit(pin))
                           ELSE And8(r.ret.val, Not8(bit(pin)))
            IN write_reg(r.self, Reg.GPINTEN, gpinten)

set_pin_interrupt_enable(self, pin, enable) ==
    LET r == read_reg(self, Reg.GPINTEN)
    IN IF ~r.ret.ok
       THEN [self |-> r.self, ret |-> r.ret]
       ELSE LET gpinten == IF enable
                           THEN Or8(r.ret.val, bit(pin))
                           ELSE And8(r.ret.val, Not8(bit(pin)))
            IN write_reg(r.self, Reg.GPINTEN, gpinten)

set_port_interrupt_enable(self, mask) == write_reg(self, Reg.GPINTEN, mask)

\* variant: the two match arms are exchanged
set_pin_interrupt_mode_swapped(self, pin, mode) ==
    LET r == read_reg(self, Reg.INTCON)
    IN IF ~r.ret.ok
       THEN [self |-> r.self, ret |-> r.ret]
       ELSE LET intcon ==
                  CASE mode = "OnChange"         -> Or8(r.ret.val, bit(pin))
                    [] mode = "CompareToDefault" -> And8(r.ret.val, Not8(bit(pin)))
            IN write_reg(r.self, Reg.INTCON, intcon)

set_pin_interrupt_mode(self, pin, mode) ==
    LET r == read_reg(self, Reg.INTCON)
    IN IF ~r.ret.ok
       THEN [self |-> r.self, ret |-> r.ret]
       ELSE LET intcon ==
                  CASE mode = "OnChange"         -> And8(r.ret.val, Not8(bit(pin)))
                    [] mode = "CompareToDefault" -> Or8(r.ret.val, bit(pin))
            IN write_reg(r.self, Reg.INTCON, intcon)

\* variant: the register is read, as a read/modify/write would begin
set_port_interrupt_mode_as_read(self, mask) ==
    LET r == read_reg(self, Reg.INTCON)
    IN [self |-> r.self, ret |-> IF r.ret.ok THEN Ok(Unit) ELSE r.ret]

set_port_interrupt_mode(self, mask) == write_reg(self, Reg.INTCON, mask)

\* variant: the value is also kept in the output shadow
set_port_default_compare_to_olat(self, defval) ==
    write_reg([self EXCEPT !.olat = defval], Reg.DEFVAL, defval)

set_port_default_compare(self, defval) == write_reg(self, Reg.DEFVAL, defval)

read_interrupt_flags(self) == read_reg(self, Reg.INTF)

read_interrupt_capture(self) == read_reg(self, Reg.INTCAP)

clear_interrupts(self) == read_reg(self, Reg.GPIO)

\* const ODR: u8 = 1 << 2
ODR == Shl8(1, 2)
set_int_open_drain(self, enable) ==
    LET r == read_reg(self, Reg.IOCON)
    IN IF ~r.ret.ok
       THEN [self |-> r.self, ret |-> r.ret]
       ELSE LET iocon == IF enable
                         THEN Or8(r.ret.val, ODR)
                         ELSE And8(r.ret.val, Not8(ODR))
            IN write_reg(r.self, Reg.IOCON, iocon)

\* const INTPOL: u8 = 1 << 1
INTPOL == Shl8(1, 1)
set_int_polarity(self, active_high) ==
    LET r == read_reg(self, Reg.IOCON)
    IN IF ~r.ret.ok
       THEN [self |-> r.self, ret |-> r.ret]
       ELSE LET iocon == IF active_high
                         THEN Or8(r.ret.val, INTPOL)
                         ELSE And8(r.ret.val, Not8(INTPOL))
            IN write_reg(r.self, Reg.IOCON, iocon)

\* variant: a default transport is handed back instead of the owned one
into_inner_default(self) == IdleSpi

into_inner(self) == self.spi

----------------------------------------------------------------------------
(* Pin capability: GpioPin { dev, pin } *)

is_high(self, pin) == read_pin(self, pin)

\* variant: the negation is left out
is_low_not_negated(self, pin) == is_high(self, pin)

is_low(self, pin) ==
    LET r == is_high(self, pin)
    IN IF ~r.ret.ok THEN r ELSE [self |-> r.self, ret |-> Ok(~r.ret.val)]

set_high(self, pin) == write_pin(self, pin, TRUE)

set_low(self, pin) == write_pin(self, pin, FALSE)

\* variant: the direction shadow is consulted instead of the output shadow
is_set_high_wrong_shadow(self, pin) ==
    [self |-> self, ret |-> Ok(And8(self.iodir, bit(pin)) # 0)]

is_set_high(self, pin) ==
    [self |-> self, ret |-> Ok(And8(self.olat, bit(pin)) # 0)]

is_set_low(self, pin) ==
    LET r == is_set_high(self, pin)
    IN IF ~r.ret.ok THEN r ELSE [self |-> r.self, ret |-> Ok(~r.ret.val)]

\* variant: the complement of the output shadow's bit is written
toggle_from_shadow(self, pin) ==
    LET c == read_pin(self, pin)
    IN IF ~c.ret.ok THEN c
       ELSE write_pin(c.self, pin, ~(And8(c.self.olat, bit(pin)) # 0))

toggle(self, pin) ==
    LET c == read_pin(self, pin)
    IN IF ~c.ret.ok THEN c ELSE write_pin(c.self, pin, ~c.ret.val)

----------------------------------------------------------------------------
(* The suspending face (src/src/mcp23s08async.rs): struct Mcp23s08async    *)
(* has the same four fields, so a handle is the same record.  An async fn  *)
(* run to its return is an operator like its blocking counterpart.  The    *)
(* functions that assign a shadow are also given up to their only await,   *)
(* the transport's transaction inside write_reg: that is where the future  *)
(* is suspended and where it can be dropped.                               *)

async_bit(pin) == Shl8(1, pin)

AsyncReg == [IODIR |-> 0, IPOL |-> 1, GPINTEN |-> 2, DEFVAL |-> 3, INTCON |-> 4,
             IOCON |-> 5, GPPU |-> 6, INTF |-> 7, INTCAP |-> 8, GPIO |-> 9,
             OLAT |-> 10]

async_opcode_write(self) == Or8(64, Shl8(And8(self.hw_addr, 3), 1))

async_opcode_read(self) == Or8(Or8(64, Shl8(And8(self.hw_addr, 3), 1)), 1)

async_write_reg(self, reg, val) ==
    LET opcode == async_opcode_write(self)
        frame  == <<opcode, reg, val>>
        t      == transaction(self.spi, <<OpWrite(frame)>>)
    IN [self |-> [self EXCEPT !.spi = t.spi],
        ret  |-> IF t.ok THEN Ok(Unit) ELSE ErrSpi(t.e)]

async_read_reg(self, reg) ==
    LET opcode == async_opcode_read(self)
        cmd    == <<opcode, reg>>
        t      == transaction(self.spi, <<OpWrite(cmd), OpRead(1)>>)
    IN [self |-> [self EXCEPT !.spi = t.spi],
        ret  |-> IF t.ok THEN Ok(t.rx) ELSE ErrSpi(t.e)]

async_new(spi, hw_addr) ==
    IF hw_addr > 3
    THEN [self |-> NoHandle, spi |-> spi, ret |-> BadAddress]
    ELSE
      LET this == [spi |-> spi, hw_addr |-> hw_addr, olat |-> 0, iodir |-> 255]
          w    == async_write_reg(this, AsyncReg.IOCON, 0)
      IN IF ~w.ret.ok
         THEN [self |-> NoHandle, spi |-> w.self.spi, ret |-> w.ret]
         ELSE
           LET r1    == async_read_reg(w.self, AsyncReg.IODIR)
               this1 == [r1.self EXCEPT !.iodir = r1.ret.val]
           IN IF ~r1.ret.ok
              THEN [self |-> NoHandle, spi |-> r1.self.spi, ret |-> r1.ret]
              ELSE
                LET r2    == async_read_reg(this1, AsyncReg.OLAT)
                    this2 == [r2.self EXCEPT !.olat = r2.ret.val]
                IN IF ~r2.ret.ok
                   THEN [self |-> NoHandle, spi |-> r2.self.spi, ret |-> r2.ret]
                   ELSE [self |-> this2, spi |-> this2.spi, ret |-> Ok(Unit)]

\* set_pin_direction up to `self.write_reg(Reg::IODIR, self.iodir).await`
async_set_pin_direction_to_await(self, pin, input) ==
    LET s == IF input
             THEN [self EXCEPT !.iodir = Or8(self.iodir, async_bit(pin))]
             ELSE [self EXCEPT !.iodir = And8(self.iodir, Not8(async_bit(pin)))]
    IN [self |-> s, reg |-> AsyncReg.IODIR, val |-> s.iodir]

async_set_pin_direction(self, pin, input) ==
    LET p == async_set_pin_direction_to_await(self, pin, input)
    IN async_write_reg(p.self, p.reg, p.val)

\* set_port_direction up to `self.write_reg(Reg::IODIR, mask).await`
async_set_port_direction_to_await(self, mask) ==
    [self |-> [self EXCEPT !.iodir = mask], reg |-> AsyncReg.IODIR, val |-> mask]

async_set_port_direction(self, mask) ==
    LET p == async_set_port_direction_to_await(self, mask)
    IN async_write_reg(p.self, p.reg, p.val)

async_set_pin_pullup(self, pin, enable) ==
    LET r == async_read_reg(self, AsyncReg.GPPU)
    IN IF ~r.ret.ok
       THEN [self |-> r.self, ret |-> r.ret]
       ELSE LET gppu == IF enable
                        THEN Or8(r.ret.val, async_bit(pin))
                        ELSE And8(r.ret.val, Not8(async_bit(pin)))
            IN async_write_reg(r.self, AsyncReg.GPPU, gppu)

async_set_port_pullups(self, mask) == async_write_reg(self, AsyncReg.GPPU, mask)

async_set_pin_polarity(self, pin, pol) ==
    LET r == async_read_reg(self, AsyncReg.IPOL)
    IN IF ~r.ret.ok
       THEN [self |-> r.self, ret |-> r.ret]
       ELSE LET ipol == CASE pol = "Normal"   -> And8(r.ret.val, Not8(async_bit(pin)))
                          [] pol = "Inverted" -> Or8(r.ret.val, async_bit(pin))
            IN async_write_reg(r.self, AsyncReg.IPOL, ipol)

async_read_port(self) == async_read_reg(self, AsyncReg.GPIO)

async_read_pin(self, pin) ==
    LET r == async_read_port(self)
    IN IF ~r.ret.ok
       THEN [self |-> r.self, ret |-> r.ret]
       ELSE [self |-> r.self, ret |-> Ok(And8(r.ret.val, async_bit(pin)) # 0)]

\* write_port up to `self.write_reg(Reg::GPIO, value).await`
async_write_port_to_await(self, value) ==
    [self |-> [self EXCEPT !.olat = value], reg |-> AsyncReg.GPIO, val |-> value]

async_write_port(self, value) ==
    LET p == async_write_port_to_await(self, value)
    IN async_write_reg(p.self, p.reg, p.val)

\* write_pin up to `self.write_reg(Reg::GPIO, self.olat).await`
async_write_pin_to_await(self, pin, high) ==
    LET s == IF high
             THEN [self EXCEPT !.olat = Or8(self.olat, async_bit(pin))]
             ELSE [self EXCEPT !.olat = And8(self.olat, Not8(async_bit(pin)))]
    IN [self |-> s, reg |-> AsyncReg.GPIO, val |-> s.olat]

async_write_pin(self, pin, high) ==
    LET p == async_write_pin_to_await(self, pin, high)
    IN async_write_reg(p.self, p.reg, p.val)

\* write_olat up to `self.write_reg(Reg::OLAT, value).await`
async_write_olat_to_await(self, value) ==
    [self |-> [self EXCEPT !.olat = value], reg |-> AsyncReg.OLAT, val |-> value]

async_write_olat(self, value) ==
    LET p == async_write_olat_to_await(self, value)
    IN async_write_reg(p.self, p.reg, p.val)

async_set_pin_interrupt_enable(self, pin, enable) ==
    LET r == async_read_reg(self, AsyncReg.GPINTEN)
    IN IF ~r.ret.ok
       THEN [self |-> r.self, ret |-> r.ret]
       ELSE LET gpinten == IF enable
                           THEN Or8(r.ret.val, async_bit(pin))
                           ELSE And8(r.ret.val, Not8(async_bit(pin)))
            IN async_write_reg(r.self, AsyncReg.GPINTEN, gpinten)

async_set_port_interrupt_enable(self, mask) ==
    async_write_reg(self, AsyncReg.GPINTEN, mask)

async_set_pin_interrupt_mode(self, pin, mode) ==
    LET r == async_read_reg(self, AsyncReg.INTCON)
    IN IF ~r.ret.ok
       THEN [self |-> r.self, ret |-> r.ret]
       ELSE LET intcon ==
                  CASE mode = "OnChange"         -> And8(r.ret.val, Not8(async_bit(pin)))
                    [] mode = "CompareToDefault" -> Or8(r.ret.val, async_bit(pin))
            IN async_write_reg(r.self, AsyncReg.INTCON, intcon)

async_is_high(self, pin) == async_read_pin(self, pin)

async_is_low(self, pin) ==
    LET r == async_is_high(self, pin)
    IN IF ~r.ret.ok THEN r ELSE [self |-> r.self, ret |-> Ok(~r.ret.val)]

async_set_high(self, pin) == async_write_pin(self, pin, TRUE)

async_set_low(self, pin) == async_write_pin(self, pin, FALSE)

async_is_set_high(self, pin) ==
    [self |-> self, ret |-> Ok(And8(self.olat, async_bit(pin)) # 0)]

async_is_set_low(self, pin) ==
    LET r == async_is_set_high(self, pin)
    IN IF ~r.ret.ok THEN r ELSE [self |-> r.self, ret |-> Ok(~r.ret.val)]

\* the public functions the suspending face has
AsyncOps ==
    {"new", "set_pin_direction", "set_port_direction", "set_pin_pullup",
     "set_port_pullups", "set_pin_polarity", "read_port", "read_pin",
     "write_port", "write_pin", "write_olat", "set_pin_interrupt_enable",
     "set_port_interrupt_enable", "set_pin_interrupt_mode",
     "is_high", "is_low", "set_high", "set_low", "is_set_high", "is_set_low"}

----------------------------------------------------------------------------
(* The caller: one action per public function.  Each action hands the     *)
(* transport a script of outcomes, runs the function to its return, and   *)
(* records the call (arguments, shadows before, Result) and the           *)
(* transactions the transport saw during it.  The record stays until the  *)
(* caller takes the Result and goes on to its next statement (Continue).  *)

\* record of a call; an argument the function does not take is 0, FALSE or ""
CallRec(op, pin, flag, mode, val, pre, ret) ==
    [op |-> op, pin |-> pin, flag |-> flag, mode |-> mode, val |-> val,
     pre |-> [iodir |-> pre.iodir, olat |-> pre.olat], ret |-> ret]

\* transactions of a log that are successful writes to GPIO or OLAT
OutWrites(log) ==
    {i \in DOMAIN log : /\ log[i].ok
                        /\ Len(log[i].ops) = 1
                        /\ log[i].ops[1].kind = "Write"
                        /\ log[i].ops[1].data[2] \in {Reg.GPIO, Reg.OLAT}}

\* transactions of a log that are successful writes to IODIR
DirWrites(log) ==
    {i \in DOMAIN log : /\ log[i].ok
                        /\ Len(log[i].ops) = 1
                        /\ log[i].ops[1].kind = "Write"
                        /\ log[i].ops[1].data[2] = Reg.IODIR}

\* history: value carried by the most recent successful direction write
LastOkDir(log, prev) ==
    IF DirWrites(log) = {} THEN prev
    ELSE LET i == CHOOSE k \in DirWrites(log) : \A j \in DirWrites(log) : j <= k
         IN log[i].ops[1].data[3]

\* history: value carried by the most recent successful output write
LastOkOut(log, prev) ==
    IF OutWrites(log) = {} THEN prev
    ELSE LET i == CHOOSE k \in OutWrites(log) : \A j \in OutWrites(log) : j <= k
         IN log[i].ops[1].data[3]

\* the handle as the function sees it: transport loaded with the script
Armed(script) == [dev EXCEPT !.spi = SpiWith(dev.spi.id, script)]

NoCall == CallRec("none", 0, FALSE, "", 0, NoHandle, Ok(Unit))

\* the call before the one that just returned, with its transactions
NoEarlier == [call |-> NoCall, bus |-> <<>>]

\* no call of the suspending face is in flight
NoFut == [op |-> "none", pin |-> 0, flag |-> FALSE, val |-> 0,
          pre |-> [iodir |-> 0, olat |-> 0], reg |-> 0, data |-> 0]

\* a call can be made on a Ready handle whose previous call has been taken
CanCall == phase = "Ready" /\ ~pending /\ nops < MaxOps

Return(op, pin, flag, mode, val, r) ==
    \E x \in {r} :
      /\ pending' = TRUE
      /\ dev' = [x.self EXCEPT !.spi = SpiWith(x.self.spi.id, <<>>)]
      /\ bus' = x.self.spi.log
      /\ call' = CallRec(op, pin, flag, mode, val, dev, x.ret)
      /\ nops' = nops + 1
      /\ last_ok_out' = LastOkOut(x.self.spi.log, last_ok_out)
      /\ last_ok_dir' = LastOkDir(x.self.spi.log, last_ok_dir)
      /\ UNCHANGED <<phase, given_addr, given_spi, earlier, fut>>

Init ==
    /\ phase = "Uninitialized"
    /\ dev = NoHandle
    /\ bus = <<>>
    /\ call = NoCall
    /\ pending = FALSE
    /\ nops = 0
    /\ given_addr = 0
    /\ last_ok_out = 0
    /\ last_ok_dir = 0
    /\ given_spi = 0
    /\ earlier = NoEarlier
    /\ fut = NoFut

Do_new ==
    /\ phase = "Uninitialized"
    /\ \E id \in SpiId, a \in Addr,
          o1 \in OutcomeW, o2 \in OutcomeR, o3 \in OutcomeR :
         LET r == new(SpiWith(id, <<o1, o2, o3>>), a)
         IN /\ phase' = IF r.ret.ok THEN "Ready" ELSE "Failed"
            /\ dev' = [r.self EXCEPT !.spi = SpiWith(r.self.spi.id, <<>>)]
            /\ bus' = r.spi.log
            /\ call' = CallRec("new", 0, FALSE, "", a, NoHandle, r.ret)
            /\ given_addr' = a
            /\ given_spi' = id
            /\ last_ok_out' = IF r.ret.ok THEN r.spi.log[3].rx ELSE 0
            /\ last_ok_dir' = IF r.ret.ok THEN r.spi.log[2].rx ELSE 0
            /\ pending' = TRUE
            /\ UNCHANGED <<nops, earlier, fut>>

Do_set_pin_direction ==
    /\ CanCall
    /\ \E pin \in Pin, input \in BOOLEAN, o \in OutcomeW :
           Return("set_pin_direction", pin, input, "", 0,
                  set_pin_direction(Armed(<<o>>), pin, input))

Do_set_port_direction ==
    /\ CanCall
    /\ \E mask \in Byte, o \in OutcomeW :
           Return("set_port_direction", 0, FALSE, "", mask,
                  set_port_direction(Armed(<<o>>), mask))

Do_set_pin_pullup ==
    /\ CanCall
    /\ \E pin \in Pin, enable \in BOOLEAN, o1 \in OutcomeR, o2 \in OutcomeW :
           Return("set_pin_pullup", pin, enable, "", 0,
                  set_pin_pullup(Armed(<<o1, o2>>), pin, enable))

Do_set_port_pullups ==
    /\ CanCall
    /\ \E mask \in Byte, o \in OutcomeW :
           Return("set_port_pullups", 0, FALSE, "", mask,
                  set_port_pullups(Armed(<<o>>), mask))

Do_set_pin_polarity ==
    /\ CanCall
    /\ \E pin \in Pin, pol \in Polarity, o1 \in OutcomeR, o2 \in OutcomeW :
           Return("set_pin_polarity", pin, FALSE, pol, 0,
                  set_pin_polarity(Armed(<<o1, o2>>), pin, pol))

Do_read_port ==
    /\ CanCall
    /\ \E o \in OutcomeR :
           Return("read_port", 0, FALSE, "", 0, read_port(Armed(<<o>>)))

Do_read_pin ==
    /\ CanCall
    /\ \E pin \in Pin, o \in OutcomeR :
           Return("read_pin", pin, FALSE, "", 0, read_pin(Armed(<<o>>), pin))

Do_write_port ==
    /\ CanCall
    /\ \E value \in Byte, o \in OutcomeW :
           Return("write_port", 0, FALSE, "", value,
                  write_port(Armed(<<o>>), value))

Do_write_pin ==
    /\ CanCall
    /\ \E pin \in Pin, high \in BOOLEAN, o \in OutcomeW :
           Return("write_pin", pin, high, "", 0,
                  write_pin(Armed(<<o>>), pin, high))

Do_write_olat ==
    /\ CanCall
    /\ \E value \in Byte, o \in OutcomeW :
           Return("write_olat", 0, FALSE, "", value,
                  write_olat(Armed(<<o>>), value))

Do_set_pin_interrupt_enable ==
    /\ CanCall
    /\ \E pin \in Pin, enable \in BOOLEAN, o1 \in OutcomeR, o2 \in OutcomeW :
           Return("set_pin_interrupt_enable", pin, enable, "", 0,
                  set_pin_interrupt_enable(Armed(<<o1, o2>>), pin, enable))

Do_set_port_interrupt_enable ==
    /\ CanCall
    /\ \E mask \in Byte, o \in OutcomeW :
           Return("set_port_interrupt_enable", 0, FALSE, "", mask,
                  set_port_interrupt_enable(Armed(<<o>>), mask))

Do_set_pin_interrupt_mode ==
    /\ CanCall
    /\ \E pin \in Pin, mode \in InterruptMode, o1 \in OutcomeR, o2 \in OutcomeW :
           Return("set_pin_interrupt_mode", pin, FALSE, mode, 0,
                  set_pin_interrupt_mode(Armed(<<o1, o2>>), pin, mode))

Do_set_port_interrupt_mode ==
    /\ CanCall
    /\ \E mask \in Byte, o \in OutcomeW :
           Return("set_port_interrupt_mode", 0, FALSE, "", mask,
                  set_port_interrupt_mode(Armed(<<o>>), mask))

Do_set_port_default_compare ==
    /\ CanCall
    /\ \E defval \in Byte, o \in OutcomeW :
           Return("set_port_default_compare", 0, FALSE, "", defval,
                  set_port_default_compare(Armed(<<o>>), defval))

Do_read_interrupt_flags ==
    /\ CanCall
    /\ \E o \in OutcomeR :
           Return("read_interrupt_flags", 0, FALSE, "", 0,
                  read_interrupt_flags(Armed(<<o>>)))

Do_read_interrupt_capture ==
    /\ CanCall
    /\ \E o \in OutcomeR :
           Return("read_interrupt_capture", 0, FALSE, "", 0,
                  read_interrupt_capture(Armed(<<o>>)))

Do_clear_interrupts ==
    /\ CanCall
    /\ \E o \in OutcomeR :
           Return("clear_interrupts", 0, FALSE, "", 0,
                  clear_interrupts(Armed(<<o>>)))

Do_set_int_open_drain ==
    /\ CanCall
    /\ \E enable \in BOOLEAN, o1 \in OutcomeR, o2 \in OutcomeW :
           Return("set_int_open_drain", 0, enable, "", 0,
                  set_int_open_drain(Armed(<<o1, o2>>), enable))

Do_set_int_polarity ==
    /\ CanCall
    /\ \E active_high \in BOOLEAN, o1 \in OutcomeR, o2 \in OutcomeW :
           Return("set_int_polarity", 0, active_high, "", 0,
                  set_int_polarity(Armed(<<o1, o2>>), active_high))

Do_is_high ==
    /\ CanCall
    /\ \E pin \in Pin, o \in OutcomeR :
           Return("is_high", pin, FALSE, "", 0, is_high(Armed(<<o>>), pin))

Do_is_low ==
    /\ CanCall
    /\ \E pin \in Pin, o \in OutcomeR :
           Return("is_low", pin, FALSE, "", 0, is_low(Armed(<<o>>), pin))

Do_set_high ==
    /\ CanCall
    /\ \E pin \in Pin, o \in OutcomeW :
           Return("set_high", pin, FALSE, "", 0, set_high(Armed(<<o>>), pin))

Do_set_low ==
    /\ CanCall
    /\ \E pin \in Pin, o \in OutcomeW :
           Return("set_low", pin, FALSE, "", 0, set_low(Armed(<<o>>), pin))

Do_is_set_high ==
    /\ CanCall
    /\ \E pin \in Pin :
           Return("is_set_high", pin, FALSE, "", 0, is_set_high(Armed(<<>>), pin))

Do_is_set_low ==
    /\ CanCall
    /\ \E pin \in Pin :
           Return("is_set_low", pin, FALSE, "", 0, is_set_low(Armed(<<>>), pin))

Do_toggle ==
    /\ CanCall
    /\ \E pin \in Pin, o1 \in OutcomeR, o2 \in OutcomeW :
           Return("toggle", pin, FALSE, "", 0, toggle(Armed(<<o1, o2>>), pin))

Do_into_inner ==
    /\ phase = "Ready"
    /\ ~pending
    /\ pending' = TRUE
    /\ phase' = "Released"
    /\ bus' = into_inner(dev).log
    /\ dev' = NoHandle
    /\ call' = CallRec("into_inner", 0, FALSE, "", 0, dev, Ok(into_inner(dev).id))
    /\ UNCHANGED <<nops, given_addr, last_ok_out, last_ok_dir, given_spi,
                   earlier, fut>>

\* drop(dev): the handle goes out of scope; the struct has no Drop impl, so
\* its fields are dropped and the transport's log is what it already was
Do_drop ==
    /\ phase = "Ready"
    /\ ~pending
    /\ pending' = TRUE
    /\ phase' = "Released"
    /\ bus' = dev.spi.log
    /\ dev' = NoHandle
    /\ call' = CallRec("drop", 0, FALSE, "", 0, dev, Ok(Unit))
    /\ UNCHANGED <<nops, given_addr, last_ok_out, last_ok_dir, given_spi,
                   earlier, fut>>

\* the caller has taken the Result of the call that returned and goes on
Continue ==
    /\ pending
    /\ phase = "Ready"
    /\ pending' = FALSE
    /\ call' = NoCall
    /\ bus' = <<>>
    /\ UNCHANGED <<phase, dev, nops, given_addr, last_ok_out, last_ok_dir,
                   given_spi, earlier, fut>>

Next ==
    \/ Do_new
    \/ Do_set_pin_direction
    \/ Do_set_port_direction
    \/ Do_set_pin_pullup
    \/ Do_set_port_pullups
    \/ Do_set_pin_polarity
    \/ Do_read_port
    \/ Do_read_pin
    \/ Do_write_port
    \/ Do_write_pin
    \/ Do_write_olat
    \/ Do_set_pin_interrupt_enable
    \/ Do_set_port_interrupt_enable
    \/ Do_set_pin_interrupt_mode
    \/ Do_set_port_interrupt_mode
    \/ Do_set_port_default_compare
    \/ Do_read_interrupt_flags
    \/ Do_read_interrupt_capture
    \/ Do_clear_interrupts
    \/ Do_set_int_open_drain
    \/ Do_set_int_polarity
    \/ Do_is_high
    \/ Do_is_low
    \/ Do_set_high
    \/ Do_set_low
    \/ Do_is_set_high
    \/ Do_is_set_low
    \/ Do_toggle
    \/ Do_into_inner
    \/ Do_drop
    \/ Continue

Spec == Init /\ [][Next]_vars

----------------------------------------------------------------------------
(* Two consecutive calls of write_pin, the first one remembered *)

\* the caller has taken the Result and keeps it while making the next call
ContinueKeep ==
    /\ pending
    /\ phase = "Ready"
    /\ pending' = FALSE
    /\ earlier' = [call |-> call, bus |-> bus]
    /\ call' = NoCall
    /\ bus' = <<>>
    /\ UNCHANGED <<phase, dev, nops, given_addr, last_ok_out, last_ok_dir,
                   given_spi, fut>>

NextPair ==
    \/ Do_new
    \/ Do_write_pin
    \/ ContinueKeep

SpecPair == Init /\ [][NextPair]_vars

----------------------------------------------------------------------------
(* The caller of the suspending face.  A call of an async fn makes a       *)
(* future; polling it runs the function to its await of the transport's    *)
(* transaction, and from there the transaction either completes (the       *)
(* future is polled to its return) or the caller drops the future.         *)

\* what the caller is left with when it drops the future: no Result
Dropped == [ok |-> FALSE, val |-> 0, err |-> "Dropped", e |-> 0]

Async_new ==
    /\ phase = "Uninitialized"
    /\ \E id \in SpiId, a \in Addr,
          o1 \in OutcomeW, o2 \in OutcomeR, o3 \in OutcomeR :
         LET r == async_new(SpiWith(id, <<o1, o2, o3>>), a)
         IN /\ phase' = IF r.ret.ok THEN "Ready" ELSE "Failed"
            /\ dev' = [r.self EXCEPT !.spi = SpiWith(r.self.spi.id, <<>>)]
            /\ bus' = r.spi.log
            /\ call' = CallRec("new", 0, FALSE, "", a, NoHandle, r.ret)
            /\ given_addr' = a
            /\ given_spi' = id
            /\ last_ok_out' = IF r.ret.ok THEN r.spi.log[3].rx ELSE 0
            /\ last_ok_dir' = IF r.ret.ok THEN r.spi.log[2].rx ELSE 0
            /\ pending' = TRUE
            /\ UNCHANGED <<nops, earlier, fut>>

\* the future has run to its await: the handle is as the function left it
Suspend(op, pin, flag, val, p) ==
    /\ fut' = [op |-> op, pin |-> pin, flag |-> flag, val |-> val,
               pre |-> [iodir |-> dev.iodir, olat |-> dev.olat],
               reg |-> p.reg, data |-> p.val]
    /\ dev' = p.self
    /\ UNCHANGED <<phase, bus, call, pending, nops, given_addr, last_ok_out,
                   last_ok_dir, given_spi, earlier>>

CanPoll == CanCall /\ fut.op = "none"

Poll_set_pin_direction ==
    /\ CanPoll
    /\ \E pin \in Pin, input \in BOOLEAN :
           Suspend("set_pin_direction", pin, input, 0,
                   async_set_pin_direction_to_await(dev, pin, input))

Poll_set_port_direction ==
    /\ CanPoll
    /\ \E mask \in Byte :
           Suspend("set_port_direction", 0, FALSE, mask,
                   async_set_port_direction_to_await(dev, mask))

Poll_write_port ==
    /\ CanPoll
    /\ \E value \in Byte :
           Suspend("write_port", 0, FALSE, value,
                   async_write_port_to_await(dev, value))

Poll_write_pin ==
    /\ CanPoll
    /\ \E pin \in Pin, high \in BOOLEAN :
           Suspend("write_pin", pin, high, 0,
                   async_write_pin_to_await(dev, pin, high))

Poll_write_olat ==
    /\ CanPoll
    /\ \E value \in Byte :
           Suspend("write_olat", 0, FALSE, value,
                   async_write_olat_to_await(dev, value))

\* the transaction completes and the future is polled to its return
Async_complete ==
    /\ fut.op # "none"
    /\ \E o \in OutcomeW :
         LET r == async_write_reg(Armed(<<o>>), fut.reg, fut.data)
         IN /\ pending' = TRUE
            /\ dev' = [r.self EXCEPT !.spi = SpiWith(r.self.spi.id, <<>>)]
            /\ bus' = r.self.spi.log
            /\ call' = CallRec(fut.op, fut.pin, fut.flag, "", fut.val, fut.pre, r.ret)
            /\ nops' = nops + 1
            /\ last_ok_out' = LastOkOut(r.self.spi.log, last_ok_out)
            /\ last_ok_dir' = LastOkDir(r.self.spi.log, last_ok_dir)
            /\ fut' = NoFut
            /\ UNCHANGED <<phase, given_addr, given_spi, earlier>>

\* the caller drops the suspended future: none of the function's remaining
\* code runs, and the handle it borrowed stays as it is
Async_cancel ==
    /\ fut.op # "none"
    /\ pending' = TRUE
    /\ bus' = <<>>
    /\ call' = CallRec(fut.op, fut.pin, fut.flag, "", fut.val, fut.pre, Dropped)
    /\ nops' = nops + 1
    /\ fut' = NoFut
    /\ UNCHANGED <<phase, dev, given_addr, last_ok_out, last_ok_dir,
                   given_spi, earlier>>

NextAsync ==
    \/ Async_new
    \/ Poll_set_pin_direction
    \/ Poll_set_port_direction
    \/ Poll_write_port
    \/ Poll_write_pin
    \/ Poll_write_olat
    \/ Async_complete
    \/ Async_cancel
    \/ Continue

SpecAsync == Init /\ [][NextAsync]_vars

----------------------------------------------------------------------------
(* Vocabulary of the properties.  Frames and bits are stated here by       *)
(* arithmetic, independently of the driver's own bit operations.           *)

\* bit i of byte x
BitOf(x, i) == (x \div (2 ^ i)) % 2

\* x with bit i forced to b
WithBit(x, i, b) == x - BitOf(x, i) * (2 ^ i) + (IF b THEN 2 ^ i ELSE 0)

\* number of bit positions in which two bytes differ
BitsChanged(x, y) == Cardinality({i \in 0..7 : BitOf(x, i) # BitOf(y, i)})

\* one transaction: a single transmit of [0x40 | a<<1 | 0, r, v]
IsWriteTx(t, a, r, v) ==
    t.ops = << [kind |-> "Write", data |-> <<64 + 2 * a, r, v>>, len |-> 3] >>

\* one transaction: transmit of [0x40 | a<<1 | 1, r], then receive of 1 byte
IsReadTx(t, a, r) ==
    t.ops = << [kind |-> "Write", data |-> <<64 + 2 * a + 1, r>>, len |-> 2],
               [kind |-> "Read",  data |-> <<>>, len |-> 1] >>

\* a write transaction of some register and byte, a read of some register
IsSomeWriteTx(t, a) ==
    /\ Len(t.ops) = 1
    /\ Len(t.ops[1].data) = 3
    /\ t.ops[1].data[2] \in 0..10
    /\ t.ops[1].data[3] \in 0..255
    /\ IsWriteTx(t, a, t.ops[1].data[2], t.ops[1].data[3])

IsSomeReadTx(t, a) ==
    /\ Len(t.ops) = 2
    /\ Len(t.ops[1].data) = 2
    /\ t.ops[1].data[2] \in 0..10
    /\ IsReadTx(t, a, t.ops[1].data[2])

\* the transport failed some transaction of the call that just returned
TransportFailed == \E i \in DOMAIN bus : ~bus[i].ok
TransportClean  == \A i \in DOMAIN bus : bus[i].ok

\* the call that just returned gave back the transport's own error
ReturnsTransportError ==
    /\ ~call.ret.ok
    /\ call.ret.err = "Spi"
    /\ call.ret.e = bus[Len(bus)].e
    /\ ~bus[Len(bus)].ok

ShadowsUnchanged ==
    /\ dev.iodir = call.pre.iodir
    /\ dev.olat = call.pre.olat

----------------------------------------------------------------------------
(* C1: new with a hardware address greater than 3 issues no transaction,   *)
(* fails with BadAddress and produces no handle.                           *)
C1_BadAddressNoIO ==
    (call.op = "new" /\ call.val > 3) =>
        /\ bus = <<>>
        /\ ~call.ret.ok
        /\ call.ret.err = "BadAddress"
        /\ phase # "Ready"
        /\ dev = NoHandle

C1_Witness == call.op = "new" /\ call.val = 4 /\ phase = "Failed"

(* C2: with an address in 0..3 and a transport that does not fail, new     *)
(* issues exactly write IOCON=0x00, read IODIR, read OLAT in this order,   *)
(* and the shadows equal the bytes the two reads returned.                 *)
C2_ConstructionSequence ==
    (call.op = "new" /\ call.val \in 0..3 /\ TransportClean) =>
        /\ Len(bus) = 3
        /\ IsWriteTx(bus[1], call.val, 5, 0)
        /\ IsReadTx(bus[2], call.val, 0)
        /\ IsReadTx(bus[3], call.val, 10)
        /\ call.ret.ok
        /\ phase = "Ready"
        /\ dev.iodir = bus[2].rx
        /\ dev.olat = bus[3].rx

C2_Witness ==
    /\ call.op = "new" /\ call.val = 2 /\ call.ret.ok
    /\ Len(bus) = 3 /\ bus[2].rx = 255 /\ bus[3].rx = 0
    /\ dev.iodir = 255 /\ dev.olat = 0

(* C3: when one of the three construction transactions fails, new returns  *)
(* the transport's error, no handle becomes Ready, and the failing         *)
(* transaction is the last one issued.                                     *)
C3_ConstructionFailure ==
    (call.op = "new" /\ TransportFailed) =>
        /\ ReturnsTransportError
        /\ phase # "Ready"
        /\ dev = NoHandle
        /\ \A i \in DOMAIN bus : ~bus[i].ok => i = Len(bus)
        /\ Len(bus) <= 3
        /\ Len(bus) >= 1 => IsWriteTx(bus[1], call.val, 5, 0)
        /\ Len(bus) >= 2 => IsReadTx(bus[2], call.val, 0)
        /\ Len(bus) >= 3 => IsReadTx(bus[3], call.val, 10)

C3_Witness ==
    /\ call.op = "new" /\ Len(bus) = 2 /\ bus[1].ok /\ ~bus[2].ok
    /\ phase = "Failed"

(* C4: every transaction a handle constructed with address a issues is     *)
(* either a single 3-byte transmit [0x40|(a<<1)|0, r, v] or a 2-byte       *)
(* transmit [0x40|(a<<1)|1, r] followed by a 1-byte receive, with r one of *)
(* the 11 registers and the same a throughout the handle's life.           *)
C4_FrameLayout ==
    /\ \A i \in DOMAIN bus :
         /\ given_addr \in 0..3
         /\ \/ IsSomeWriteTx(bus[i], given_addr)
            \/ IsSomeReadTx(bus[i], given_addr)
    /\ phase = "Ready" => dev.hw_addr = given_addr

C4_Witness ==
    /\ given_addr = 3 /\ phase = "Ready" /\ Len(bus) = 2
    /\ IsReadTx(bus[1], 3, 6)
    /\ IsWriteTx(bus[2], 3, 6, 254)

IsShadowWrite ==
    call.op \in {"set_pin_direction", "set_port_direction",
                 "write_pin", "write_port", "write_olat"}

(* C5: when the write transaction of set_pin_direction, set_port_direction,*)
(* write_pin, write_port or write_olat fails, both shadows equal their     *)
(* values from before the call.                                            *)
C5_NoShadowChangeOnFailure ==
    (IsShadowWrite /\ TransportFailed) => ShadowsUnchanged

IsRmw ==
    call.op \in {"set_pin_pullup", "set_pin_polarity", "set_pin_interrupt_enable",
                 "set_pin_interrupt_mode", "set_int_open_drain", "set_int_polarity"}

(* C6: a transport failure in the read or in the write transaction of a    *)
(* read-modify-write operation leaves both shadows unchanged and the       *)
(* operation returns the transport's error.                                *)
C6_RmwFailure ==
    (IsRmw /\ TransportFailed) =>
        /\ ShadowsUnchanged
        /\ ReturnsTransportError

C6_Witness ==
    /\ call.op = "set_int_polarity" /\ Len(bus) = 2
    /\ bus[1].ok /\ ~bus[2].ok /\ ~call.ret.ok

(* C7: is_set_high(p) returns bit p of the value carried by the most       *)
(* recent output write whose transaction succeeded, or of the OLAT byte    *)
(* read at construction when no output write has succeeded yet.            *)
C7_IsSetReflectsLastSuccess ==
    call.op = "is_set_high" =>
        call.ret.val = (BitOf(last_ok_out, call.pin) = 1)

(* C8: is_set_high and is_set_low issue no transaction, leave both shadows *)
(* unchanged, never fail, and return (output_shadow & mask(p)) != 0 and    *)
(* its negation.                                                           *)
C8_IsSetZeroIO ==
    call.op \in {"is_set_high", "is_set_low"} =>
        /\ bus = <<>>
        /\ ShadowsUnchanged
        /\ call.ret.ok
        /\ call.ret.val = IF call.op = "is_set_high"
                          THEN BitOf(call.pre.olat, call.pin) = 1
                          ELSE BitOf(call.pre.olat, call.pin) = 0

C8_Witness ==
    /\ call.op = "is_set_low" /\ call.pin = 3
    /\ call.pre.olat = 8 /\ call.ret.val = FALSE

(* C9 as stated: set_pin_direction leaves direction_shadow equal to the    *)
(* prior shadow with exactly one bit toggled and issues exactly one write  *)
(* to IODIR carrying the new shadow.                                       *)
C9_ExactlyOneBitToggled ==
    call.op = "set_pin_direction" =>
        /\ BitsChanged(dev.iodir, call.pre.iodir) = 1
        /\ Len(bus) = 1
        /\ IsWriteTx(bus[1], given_addr, 0, dev.iodir)

(* C9 amended: set_pin_direction leaves direction_shadow equal to the      *)
(* prior shadow with bit p forced to the requested direction (at most one  *)
(* bit differs, and one does exactly when bit p had the other value), and  *)
(* issues exactly one write to IODIR carrying the new shadow.              *)
C9_BitForced ==
    call.op = "set_pin_direction" =>
        /\ \A i \in 0..7 :
             BitOf(dev.iodir, i) = IF i = call.pin
                                   THEN (IF call.flag THEN 1 ELSE 0)
                                   ELSE BitOf(call.pre.iodir, i)
        /\ BitsChanged(dev.iodir, call.pre.iodir) =
             IF BitOf(call.pre.iodir, call.pin) = (IF call.flag THEN 1 ELSE 0)
             THEN 0 ELSE 1
        /\ Len(bus) = 1
        /\ IsWriteTx(bus[1], given_addr, 0, dev.iodir)

C9_Witness ==
    /\ call.op = "set_pin_direction" /\ call.pin = 7 /\ call.flag
    /\ call.pre.iodir = 255 /\ dev.iodir = 255 /\ Len(bus) = 1

(* C10: on a non-failing transport set_pin_direction(p, input) issues one  *)
(* write to IODIR whose value is the prior shadow with bit p set (input)   *)
(* or cleared (output), and the shadow becomes that value;                 *)
(* set_port_direction(mask) issues one IODIR write of mask and leaves the  *)
(* shadow equal to mask.                                                   *)
C10_DirectionWrites ==
    /\ (call.op = "set_pin_direction" /\ TransportClean) =>
          /\ Len(bus) = 1
          /\ IsWriteTx(bus[1], given_addr, 0,
                       WithBit(call.pre.iodir, call.pin, call.flag))
          /\ dev.iodir = WithBit(call.pre.iodir, call.pin, call.flag)
          /\ call.ret.ok
    /\ (call.op = "set_port_direction" /\ TransportClean) =>
          /\ Len(bus) = 1
          /\ IsWriteTx(bus[1], given_addr, 0, call.val)
          /\ dev.iodir = call.val
          /\ call.ret.ok

C10_Witness ==
    /\ call.op = "set_pin_direction" /\ call.pin = 0 /\ ~call.flag
    /\ given_addr = 0 /\ call.pre.iodir = 255 /\ call.pre.olat = 0
    /\ Len(bus) = 1 /\ bus[1].ok
    /\ bus[1].ops[1].data = <<64, 0, 254>>
    /\ dev.iodir = 254

----------------------------------------------------------------------------
\* register, bit position and requested bit value of a read-modify-write call
RmwReg ==
    CASE call.op = "set_pin_pullup"           -> 6
      [] call.op = "set_pin_polarity"         -> 1
      [] call.op = "set_pin_interrupt_enable" -> 2
      [] call.op = "set_pin_interrupt_mode"   -> 4
      [] call.op = "set_int_open_drain"       -> 5
      [] call.op = "set_int_polarity"         -> 5

RmwBit ==
    CASE call.op = "set_int_open_drain" -> 2
      [] call.op = "set_int_polarity"   -> 1
      [] OTHER                          -> call.pin

RmwSet ==
    CASE call.op = "set_pin_polarity"       -> call.mode = "Inverted"
      [] call.op = "set_pin_interrupt_mode" -> call.mode = "CompareToDefault"
      [] OTHER                              -> call.flag

(* C11: on a non-failing transport each read-modify-write operation issues *)
(* one read and then one write of the same register (GPPU, IPOL, GPINTEN,  *)
(* INTCON, IOCON bit 2, IOCON bit 1), and the written value is the value   *)
(* read with only the targeted bit set or cleared as requested.            *)
C11_RmwSequence ==
    (IsRmw /\ TransportClean) =>
        /\ Len(bus) = 2
        /\ IsReadTx(bus[1], given_addr, RmwReg)
        /\ IsWriteTx(bus[2], given_addr, RmwReg,
                     WithBit(bus[1].rx, RmwBit, RmwSet))
        /\ BitsChanged(bus[2].ops[1].data[3], bus[1].rx) <= 1
        /\ call.ret.ok

C11_Witness ==
    /\ call.op = "set_pin_interrupt_mode" /\ call.mode = "OnChange"
    /\ call.pin = 5 /\ Len(bus) = 2 /\ bus[1].ok /\ bus[2].ok
    /\ bus[1].rx = 255 /\ bus[2].ops[1].data = <<64 + 2 * given_addr, 4, 223>>

IsByteRead ==
    call.op \in {"read_port", "read_interrupt_flags", "read_interrupt_capture",
                 "clear_interrupts"}

IsPinRead == call.op \in {"read_pin", "is_high", "is_low"}

ReadReg ==
    CASE call.op = "read_interrupt_flags"   -> 7
      [] call.op = "read_interrupt_capture" -> 8
      [] OTHER                              -> 9

(* C13: read_pin and is_high issue one read of GPIO and return whether bit *)
(* p of the received byte is 1 (is_low the negation); read_port,           *)
(* read_interrupt_flags, read_interrupt_capture and clear_interrupts issue *)
(* one read of GPIO, INTF, INTCAP, GPIO and return the received byte; none *)
(* of them changes a shadow.                                               *)
C13_Reads ==
    (IsByteRead \/ IsPinRead) =>
        /\ Len(bus) = 1
        /\ IsReadTx(bus[1], given_addr, ReadReg)
        /\ ShadowsUnchanged
        /\ bus[1].ok =>
             /\ call.ret.ok
             /\ IsByteRead => call.ret.val = bus[1].rx
             /\ call.op \in {"read_pin", "is_high"} =>
                  call.ret.val = (BitOf(bus[1].rx, call.pin) = 1)
             /\ call.op = "is_low" =>
                  call.ret.val = (BitOf(bus[1].rx, call.pin) = 0)

C13_Witness ==
    /\ call.op = "is_low" /\ call.pin = 6 /\ Len(bus) = 1
    /\ bus[1].ok /\ bus[1].rx = 255 /\ call.ret.val = FALSE

(* C14: toggle issues one GPIO read and then one GPIO write whose value is *)
(* the prior output_shadow with bit p set to the negation of bit p of the  *)
(* byte just read, and output_shadow becomes that value; when the read     *)
(* fails no write is issued and output_shadow is unchanged.                *)
C14_Toggle ==
    call.op = "toggle" =>
        /\ Len(bus) >= 1
        /\ IsReadTx(bus[1], given_addr, 9)
        /\ bus[1].ok =>
             /\ Len(bus) = 2
             /\ IsWriteTx(bus[2], given_addr, 9,
                          WithBit(call.pre.olat, call.pin,
                                  BitOf(bus[1].rx, call.pin) = 0))
             /\ dev.olat = WithBit(call.pre.olat, call.pin,
                                   BitOf(bus[1].rx, call.pin) = 0)
        /\ ~bus[1].ok =>
             /\ Len(bus) = 1
             /\ dev.olat = call.pre.olat

\* the pin reads high while the shadow's bit is clear: the write clears it
C14_Witness ==
    /\ call.op = "toggle" /\ call.pin = 0 /\ Len(bus) = 2
    /\ call.pre.olat = 0 /\ bus[1].rx = 255 /\ dev.olat = 0

(* C15: once a transaction of an operation fails, the operation issues no  *)
(* further transaction and returns the transport's error; no operation     *)
(* after construction returns BadAddress.                                  *)
C15_NoRetry ==
    /\ TransportFailed =>
         /\ \A i \in DOMAIN bus : ~bus[i].ok => i = Len(bus)
         /\ ReturnsTransportError
    /\ call.op # "new" => call.ret.err # "BadAddress"

C15_Witness ==
    /\ call.op = "set_pin_interrupt_enable" /\ Len(bus) = 1
    /\ ~bus[1].ok /\ call.ret.err = "Spi" /\ call.ret.e = 2

\* a read transaction that delivered a byte
IsOkRead(t) == t.ok /\ Len(t.ops) = 2 /\ t.ops[2].kind = "Read"

(* C20: after construction no transaction is a read of IODIR (index 0) or  *)
(* of OLAT (index 10), and no call leaves in direction_shadow or           *)
(* output_shadow a byte it received from the transport.                    *)
C20_NoReadBack ==
    call.op \notin {"none", "new"} =>
        \A i \in DOMAIN bus :
            /\ ~IsReadTx(bus[i], given_addr, 0)
            /\ ~IsReadTx(bus[i], given_addr, 10)
            /\ IsOkRead(bus[i]) =>
                 /\ dev.iodir # call.pre.iodir => dev.iodir # bus[i].rx
                 /\ dev.olat # call.pre.olat => dev.olat # bus[i].rx

C20_Witness ==
    /\ call.op = "read_port" /\ Len(bus) = 1 /\ IsOkRead(bus[1])
    /\ bus[1].rx = 255 /\ call.pre.olat = 0 /\ dev.olat = 0

(* C18: releasing a Ready handle, by drop or by into_inner, issues no      *)
(* transaction, and into_inner returns the transport that was given to     *)
(* the constructor.                                                        *)
C18_ReleaseNoIO ==
    call.op \in {"into_inner", "drop"} =>
        /\ phase = "Released"
        /\ bus = <<>>
        /\ call.op = "into_inner" =>
             /\ call.ret.ok
             /\ call.ret.val = given_spi
             /\ call.ret.val \in SpiId

\* released after a call that did issue transactions
C18_Witness ==
    /\ call.op = "into_inner" /\ nops = 2 /\ call.ret.val = 2
    /\ call.pre.olat # last_ok_out

\* the shadows equal the hardware registers under the hardware model in
\* which a successful write stores its value
Mirror ==
    phase = "Ready" =>
        /\ dev.iodir = last_ok_dir
        /\ dev.olat = last_ok_out

(* C19: with hardware in which a successful write to IODIR stores the      *)
(* value in IODIR and a successful write to GPIO or OLAT stores it in      *)
(* OLAT: after construction, and after every operation that completes      *)
(* without a transport failure from a state where the shadows equal the    *)
(* hardware registers, direction_shadow equals hardware IODIR and          *)
(* output_shadow equals hardware OLAT.                                     *)
C19_ShadowsMirrorHardware ==
    [][(Mirror /\ TransportClean') => Mirror']_vars

C19_Witness ==
    /\ call.op = "write_olat" /\ TransportClean /\ Len(bus) = 1
    /\ call.pre.olat = 0 /\ dev.olat = 255 /\ last_ok_out = 255
    /\ dev.iodir = last_ok_dir /\ nops = 2

\* write_pin(p, true) and then write_pin(p, false), both transactions ok
PinPair ==
    /\ earlier.call.op = "write_pin" /\ earlier.call.flag
    /\ call.op = "write_pin" /\ ~call.flag
    /\ call.pin = earlier.call.pin
    /\ Len(earlier.bus) = 1 /\ earlier.bus[1].ok
    /\ TransportClean

\* output_shadow before the first of the two calls
Prior == earlier.call.pre.olat

(* C12 as stated: write_pin(p, true) followed by write_pin(p, false) on a  *)
(* non-failing transport restores the prior output_shadow and issues two   *)
(* GPIO writes with values prior|mask(p) and then prior.                   *)
C12_RestoresPrior ==
    PinPair =>
        /\ dev.olat = Prior
        /\ Len(bus) = 1
        /\ IsWriteTx(earlier.bus[1], given_addr, 9, Or8(Prior, bit(call.pin)))
        /\ IsWriteTx(bus[1], given_addr, 9, Prior)

(* C12 amended: write_pin(p, true) followed by write_pin(p, false) on a    *)
(* non-failing transport issues two GPIO writes with values prior|mask(p)  *)
(* and then prior & ~mask(p), which becomes output_shadow; that is the     *)
(* prior value exactly when bit p of prior was clear.                      *)
C12_ClearsBit ==
    PinPair =>
        /\ dev.olat = And8(Prior, Not8(bit(call.pin)))
        /\ Len(bus) = 1
        /\ IsWriteTx(earlier.bus[1], given_addr, 9, Or8(Prior, bit(call.pin)))
        /\ IsWriteTx(bus[1], given_addr, 9, And8(Prior, Not8(bit(call.pin))))
        /\ (dev.olat = Prior) <=> (BitOf(Prior, call.pin) = 0)

C12_Witness ==
    /\ PinPair /\ call.pin = 3 /\ Prior = 255
    /\ earlier.bus[1].ops[1].data[3] = 255
    /\ bus[1].ops[1].data[3] = 247 /\ dev.olat = 247

(* C16: in the suspending face, when a call of set_pin_direction,          *)
(* set_port_direction, write_pin, write_port or write_olat is dropped      *)
(* while suspended at its write transaction, direction_shadow and          *)
(* output_shadow equal their values from before the call.                  *)
C16_CancelKeepsShadows ==
    (IsShadowWrite /\ call.ret.err = Dropped.err) => ShadowsUnchanged

\* outcomes the transport gave the call that just returned, followed by
\* spare successes for a face that would issue more transactions
SameOutcomes ==
    [i \in DOMAIN bus |-> [ok |-> bus[i].ok, rx |-> bus[i].rx, e |-> bus[i].e]]
        \o <<[ok |-> TRUE, rx |-> 0, e |-> 0], [ok |-> TRUE, rx |-> 0, e |-> 0]>>

\* the handle the call that just returned started from, on the same outcomes
SameStart ==
    [spi |-> SpiWith(given_spi, SameOutcomes), hw_addr |-> given_addr,
     olat |-> call.pre.olat, iodir |-> call.pre.iodir]

\* the suspending face's function for the call that just returned, run to
\* its return from the same start
AsyncRun ==
    CASE call.op = "set_pin_direction" ->
           async_set_pin_direction(SameStart, call.pin, call.flag)
      [] call.op = "set_port_direction" ->
           async_set_port_direction(SameStart, call.val)
      [] call.op = "set_pin_pullup" ->
           async_set_pin_pullup(SameStart, call.pin, call.flag)
      [] call.op = "set_port_pullups" ->
           async_set_port_pullups(SameStart, call.val)
      [] call.op = "set_pin_polarity" ->
           async_set_pin_polarity(SameStart, call.pin, call.mode)
      [] call.op = "read_port" -> async_read_port(SameStart)
      [] call.op = "read_pin" -> async_read_pin(SameStart, call.pin)
      [] call.op = "write_port" -> async_write_port(SameStart, call.val)
      [] call.op = "write_pin" ->
           async_write_pin(SameStart, call.pin, call.flag)
      [] call.op = "write_olat" -> async_write_olat(SameStart, call.val)
      [] call.op = "set_pin_interrupt_enable" ->
           async_set_pin_interrupt_enable(SameStart, call.pin, call.flag)
      [] call.op = "set_port_interrupt_enable" ->
           async_set_port_interrupt_enable(SameStart, call.val)
      [] call.op = "set_pin_interrupt_mode" ->
           async_set_pin_interrupt_mode(SameStart, call.pin, call.mode)
      [] call.op = "is_high" -> async_is_high(SameStart, call.pin)
      [] call.op = "is_low" -> async_is_low(SameStart, call.pin)
      [] call.op = "set_high" -> async_set_high(SameStart, call.pin)
      [] call.op = "set_low" -> async_set_low(SameStart, call.pin)
      [] call.op = "is_set_high" -> async_is_set_high(SameStart, call.pin)
      [] call.op = "is_set_low" -> async_is_set_low(SameStart, call.pin)

\* same transactions in the same order, same Result, same shadows
AsyncAgrees ==
    IF call.op = "new"
    THEN LET r == async_new(SpiWith(given_spi, SameOutcomes), call.val)
         IN /\ r.spi.log = bus
            /\ r.ret = call.ret
            /\ r.self.iodir = dev.iodir
            /\ r.self.olat = dev.olat
            /\ r.self.hw_addr = dev.hw_addr
    ELSE LET r == AsyncRun
         IN /\ r.self.spi.log = bus
            /\ r.ret = call.ret
            /\ r.self.iodir = dev.iodir
            /\ r.self.olat = dev.olat

(* C17: for every operation of the device handle and of the pin capability *)
(* in the blocking face, the suspending face has the operation and, from   *)
(* the same shadows and hardware address and on the same transport         *)
(* outcomes, issues the same transactions in the same order, returns the   *)
(* same result and ends with the same two shadows.                         *)
C17_FacesAgree ==
    call.op \notin {"none", "drop"} =>
        /\ call.op \in AsyncOps
        /\ AsyncAgrees

\* the part of C17 that holds: the functions both faces have agree
C17_CommonOpsAgree ==
    call.op \in AsyncOps => AsyncAgrees

IsPortInterruptForm ==
    call.op \in {"set_port_interrupt_enable", "set_port_interrupt_mode"}

\* register of the port form of interrupt enable / interrupt mode
PortInterruptReg ==
    IF call.op = "set_port_interrupt_enable" THEN 2 ELSE 4

(* C21 as stated: set_port_interrupt_enable issues a read of GPINTEN       *)
(* before its write of GPINTEN, and set_port_interrupt_mode a read of      *)
(* INTCON before its write of INTCON.                                      *)
C21_PortFormsReadFirst ==
    IsPortInterruptForm =>
        /\ Len(bus) >= 1
        /\ IsReadTx(bus[1], given_addr, PortInterruptReg)
        /\ bus[1].ok =>
             /\ Len(bus) = 2
             /\ IsSomeWriteTx(bus[2], given_addr)
             /\ bus[2].ops[1].data[2] = PortInterruptReg

(* C21 amended: set_port_interrupt_enable(mask) and                        *)
(* set_port_interrupt_mode(mask) issue exactly one transaction, a write of *)
(* the unmodified mask to GPINTEN respectively INTCON, with no read; they  *)
(* return Ok when it succeeds and the transport's error when it fails, and *)
(* change no shadow.                                                       *)
C21_PortFormsWriteDirectly ==
    IsPortInterruptForm =>
        /\ Len(bus) = 1
        /\ IsWriteTx(bus[1], given_addr, PortInterruptReg, call.val)
        /\ \A i \in DOMAIN bus : ~IsSomeReadTx(bus[i], given_addr)
        /\ ShadowsUnchanged
        /\ bus[1].ok => call.ret.ok
        /\ ~bus[1].ok => ReturnsTransportError

C21_Witness ==
    /\ call.op = "set_port_interrupt_mode" /\ call.val = 255
    /\ Len(bus) = 1 /\ bus[1].ok /\ call.ret.ok
    /\ bus[1].ops[1].data = <<64 + 2 * given_addr, 4, 255>>

IsDirectPortWrite ==
    call.op \in {"set_port_pullups", "set_port_default_compare"}

\* register of set_port_pullups / set_port_default_compare
DirectPortReg ==
    IF call.op = "set_port_pullups" THEN 6 ELSE 3

(* C22: set_port_pullups(mask) and set_port_default_compare(v) each issue  *)
(* exactly one transaction, a write of the unmodified argument to GPPU     *)
(* (index 6) respectively DEFVAL (index 3), with no preceding read, and    *)
(* change neither shadow whether the write succeeds or fails.              *)
C22_DirectPortWrites ==
    IsDirectPortWrite =>
        /\ Len(bus) = 1
        /\ IsWriteTx(bus[1], given_addr, DirectPortReg, call.val)
        /\ ~IsSomeReadTx(bus[1], given_addr)
        /\ ShadowsUnchanged

\* a failed write of DEFVAL with shadows that differ from the argument
C22_Witness ==
    /\ call.op = "set_port_default_compare" /\ call.val = 255
    /\ Len(bus) = 1 /\ ~bus[1].ok /\ ~call.ret.ok
    /\ call.pre.olat = 0 /\ dev.olat = 0

\* bits other than bit p agree in two bytes
SameButBit(x, y, p) == \A i \in (0..7) \ {p} : BitOf(x, i) = BitOf(y, i)

(* C23: set_pin_direction and set_port_direction never change              *)
(* output_shadow; write_pin, write_port, write_olat and toggle never       *)
(* change direction_shadow; write_pin(p, _) and set_pin_direction(p, _)    *)
(* leave every bit other than bit p of the shadow they update as it was.   *)
C23_ShadowsIndependent ==
    /\ call.op \in {"set_pin_direction", "set_port_direction"} =>
         dev.olat = call.pre.olat
    /\ call.op \in {"write_pin", "write_port", "write_olat", "toggle"} =>
         dev.iodir = call.pre.iodir
    /\ call.op = "write_pin" => SameButBit(dev.olat, call.pre.olat, call.pin)
    /\ call.op = "set_pin_direction" =>
         SameButBit(dev.iodir, call.pre.iodir, call.pin)

\* a pin write that changes its bit among set neighbours, direction differing
C23_Witness ==
    /\ call.op = "write_pin" /\ call.pin = 3 /\ ~call.flag
    /\ call.pre.olat = 255 /\ dev.olat = 247
    /\ call.pre.iodir = 0 /\ dev.iodir = 0

====
